---- MODULE Spec2Model ----
(***************************************************************************)
(* Tray icon registration of StreamController (src/src/tray.py), and the   *)
(* lock-protected map of pending key images (ui_image_changes_while_hidden *)
(* with ui_image_changes_lock) as src/tests/test_thread_safety.py drives   *)
(* it.                                                                     *)
(*                                                                         *)
(* Threads of the tray icon:                                                   *)
(*   - the caller of the public methods start(), initialize() and stop();  *)
(*   - the registration threads spawned by _register_with_retry, each      *)
(*     running _do_register_with_retry;                                    *)
(*   - the GLib main loop, which runs the do_register closures that the    *)
(*     registration threads hand to GLib.idle_add, in submission order.    *)
(*                                                                         *)
(* Time is abstracted: event.wait(timeout=10) may give up at any moment at *)
(* which the event is not set, and time.sleep only adds to a counter.      *)
(* The value event.wait returns is discarded by the code, so an attempt    *)
(* "timed out" exactly when the worker reads result[0] and finds None.     *)
(***************************************************************************)
EXTENDS Naturals, Sequences, FiniteSets

\* ---------------------------------------------------------------- constants
\* TrayIcon.MAX_RETRIES
MAX_RETRIES == 5
\* TrayIcon.RETRY_DELAY_SECONDS
RETRY_DELAY_SECONDS == 2

\* ------------------------------------------------------------------- bounds
\* Number of registration threads the callers may spawn in one behaviour.
MaxWorkers == 2
\* Number of event.wait calls, over all threads, that may time out.
MaxTimeouts == 1
\* Number of registration threads spawned where no wait is kept from timing
\* out (TerminationSpec).
MaxTerminationWorkers == 1
\* Number of key identifiers of the device.
MaxKeys == 2
\* Number of iterations of the writer thread (iterations of writer_thread).
MaxWrites == 3
\* Number of iterations of the reader thread (iterations of reader_thread).
MaxDrains == 2

Workers == 1..MaxWorkers

\* Key identifiers; image i is the image rendered in iteration i of the writer
Keys == 1..MaxKeys

Images == 1..MaxWrites

VARIABLES
    is_registered,        \* self._is_registered
    stop_retry,           \* self._stop_retry
    registration_thread,  \* self._registration_thread: 0 is None, else the id of the last thread spawned
    thr,                  \* the registration threads: position in _do_register_with_retry and locals
    idle,                 \* GLib idle queue: the do_register closures not yet run, as <<thread, attempt>>
    bus,                  \* TRUE while the service bus holds the registration made by register()
    reg_ok,               \* TRUE once some register() call has returned without raising
    timed_out,            \* number of event.wait calls, over all threads, that timed out so far (where counted)
    stop_seen,            \* the threads 1..stop_seen had been spawned when stop() was last called
    unreg_failed,         \* TRUE when the unregister() call of the last stop() raised
    last,                 \* the step taken last: which method, with which setting, and what it did
    ui_error,             \* TRUE once an exception has left a do_register closure into the main loop
    menu,                 \* self.menu: the entries of the DBusMenu, in the order of its list
    ui_changes,           \* ui_image_changes_while_hidden: key -> pending image, 0 when the key is absent
    lock,                 \* ui_image_changes_lock: "free", or the thread that holds it
    writer,               \* the thread that records images: position and loop variable
    reader,               \* the thread that drains: position, loop variable, snapshot and what is left of it
    applied,              \* image -> number of times apply_fn was called with it
    overwritten,          \* the images replaced in the map by a later image of the same key
    latest,               \* key -> the image recorded last for the key, 0 when none was
    failures,             \* number of apply_fn calls that raised
    reported,             \* number of apply_fn failures logged
    errors                \* number of entries of the errors list (exceptions caught in the threads)

tray == <<is_registered, stop_retry, registration_thread, thr, idle, bus, reg_ok, timed_out, stop_seen, unreg_failed, last, ui_error>>

chan == <<ui_changes, lock, writer, reader, applied, overwritten, latest, failures, reported, errors>>

vars == <<tray, menu, chan>>

\* ------------------------------------------------------------ thread records
\* pc:        "none"  not spawned          "top"   at the head of the for loop
\*            "wait"  in event.wait        "registered" | "cancelled" | "gaveup"  returned
\*            "crashed"  left by an exception
\* attempt:   the loop variable
\* result:    result[0] of the current attempt: "None" | "True" | "Exception"
\* scheduled: number of GLib.idle_add calls made
\* warnings:  number of log.warning calls made
\* slept:     seconds spent in time.sleep
\* timeouts:  number of attempts whose wait ended with result[0] still None
\* The locals and the counters belong to a running thread: of a thread that
\* has returned only the way it returned is kept (Gone), and the counters it
\* had reached are handed to last.ret by the step that returns.
NotSpawned ==
    [pc |-> "none", attempt |-> 1, result |-> "None", scheduled |-> 0,
     warnings |-> 0, slept |-> 0, timeouts |-> 0]

Fresh == [NotSpawned EXCEPT !.pc = "top"]

Gone(how) == [NotSpawned EXCEPT !.pc = how]

Alive(w) == thr[w].pc \in {"top", "wait"}

Returned(w) == thr[w].pc \in {"registered", "cancelled", "gaveup", "crashed"}

\* stop() was called while thread w was running: w had been spawned by then
\* and has not returned since.
StoppedWhileRunning(w) == Alive(w) /\ w <= stop_seen

\* last describes the last step that did something (a start() or initialize()
\* that returns at once is no step):
\*   call    the method called: "start" | "initialize" | "stop"; "returned" when
\*           a registration thread left _do_register_with_retry; "other" for
\*           every other step of a registration thread or of the main loop
\*   pref    the tray-icon setting at the time of a start() or initialize() call
\*   unreg   what unregister() did in a stop() call: "none" (not called) | "ok" | "raise"
\*   escaped an exception left stop()
\*   again   the call is a stop() and the step before it was a stop() too
\*   ret     the record of the thread that returned, as it was on return
Call(call, pref) ==
    [call |-> call, pref |-> pref, unreg |-> "none", escaped |-> FALSE,
     again |-> FALSE, ret |-> NotSpawned]

Other == Call("other", TRUE)

ReturnOf(t) == [Call("returned", TRUE) EXCEPT !.ret = t]

\* ------------------------------------------------------------------ the menu
\* DBusMenu.add_menu_item(item_id, label, callback=..., menu_type=...): one
\* entry is appended to the entries; a call is <<id, label, type, callback>>
AddMenuItem(items, call) ==
    Append(items, [id |-> call[1], label |-> call[2], type |-> call[3],
                   callback |-> call[4]])

\* DBusMenu.get_items(): the entries, in the order of the list
GetItems(m) == m

\* the add_menu_item calls of TrayIcon.__init__, in program order
MenuCallsMutant ==
    << <<1, "Show Window", "standard", "on_show">>,
       <<2, "", "separator", "none">>,
       <<3, "Settings", "standard", "on_settings">>,
       <<4, "Store", "standard", "on_store">>,
       <<5, "About", "standard", "on_about">>,
       <<7, "Quit", "standard", "on_quit">>,
       <<6, "", "separator", "none">> >>

MenuCalls ==
    << <<1, "Show Window", "standard", "on_show">>,
       <<2, "", "separator", "none">>,
       <<3, "Settings", "standard", "on_settings">>,
       <<4, "Store", "standard", "on_store">>,
       <<5, "About", "standard", "on_about">>,
       <<6, "", "separator", "none">>,
       <<7, "Quit", "standard", "on_quit">> >>

RECURSIVE AddAll(_, _)
AddAll(items, calls) ==
    IF calls = <<>> THEN items
    ELSE AddAll(AddMenuItem(items, Head(calls)), Tail(calls))

\* the empty map
NoImages == [k \in Keys |-> 0]

\* --------------------------------------------------------------------- Init
Init ==
    /\ is_registered = FALSE
    /\ stop_retry = FALSE
    /\ registration_thread = 0
    /\ thr = [w \in Workers |-> NotSpawned]
    /\ idle = <<>>
    /\ bus = FALSE
    /\ reg_ok = FALSE
    /\ timed_out = 0
    /\ stop_seen = 0
    /\ unreg_failed = FALSE
    /\ last = Call("init", TRUE)
    /\ ui_error = FALSE
    /\ menu = AddAll(<<>>, MenuCalls)
    /\ ui_changes = NoImages
    /\ lock = "free"
    /\ writer = [pc |-> "out", i |-> 1]
    /\ reader = [pc |-> "out", j |-> 1, items |-> NoImages, topop |-> {},
                 toapply |-> {}, escaped |-> FALSE]
    /\ applied = [img \in Images |-> 0]
    /\ overwritten = {}
    /\ latest = NoImages
    /\ failures = 0
    /\ reported = 0
    /\ errors = 0

\* ------------------------------------------- start / initialize (caller side)
\* if self._is_registered: return
SpawnAllowedMutant == TRUE

SpawnAllowed == ~is_registered

\* show_now = app_settings.get("ui", {}).get("tray-icon", True); if show_now:
ShowNow(pref) == pref

\* _register_with_retry: returns when registered, else clears the stop flag
\* and starts a new thread
RegisterWithRetryMutant ==
    IF SpawnAllowed
    THEN /\ registration_thread < MaxWorkers
         /\ stop_retry' = FALSE
         /\ registration_thread' = registration_thread + 1
         /\ thr' = [thr EXCEPT ![registration_thread + 1] = Fresh]
    ELSE /\ stop_retry' = FALSE
         /\ UNCHANGED <<registration_thread, thr>>

RegisterWithRetry ==
    IF SpawnAllowed
    THEN /\ registration_thread < MaxWorkers
         /\ stop_retry' = FALSE
         /\ registration_thread' = registration_thread + 1
         /\ thr' = [thr EXCEPT ![registration_thread + 1] = Fresh]
    ELSE UNCHANGED <<stop_retry, registration_thread, thr>>

\* start() does not read the settings; pref is the setting at the time of the
\* call. A call that returns at once changes nothing and leaves no trace in
\* last.
Start ==
    \E pref \in BOOLEAN :
        /\ RegisterWithRetry
        /\ last' = IF SpawnAllowed THEN Call("start", pref) ELSE last
        /\ UNCHANGED <<is_registered, idle, bus, reg_ok, timed_out, stop_seen>>
        /\ UNCHANGED <<unreg_failed, ui_error, menu, chan>>

\* initialize(main_win): the assignments of main_win and of the four actions
\* touch nothing the registration reads.
Initialize ==
    \E pref \in BOOLEAN :
        /\ IF ShowNow(pref)
           THEN RegisterWithRetry
           ELSE UNCHANGED <<stop_retry, registration_thread, thr>>
        /\ last' = IF ShowNow(pref) /\ SpawnAllowed
                   THEN Call("initialize", pref) ELSE last
        /\ UNCHANGED <<is_registered, idle, bus, reg_ok, timed_out, stop_seen>>
        /\ UNCHANGED <<unreg_failed, ui_error, menu, chan>>

\* ------------------------------------------------------- stop (caller side)
\* self._stop_retry = True
StopFlagMutant == stop_retry

StopFlag == TRUE

\* except Exception as e: log.warning(f"Error unregistering tray icon: {e}")
StopCatches(exc) == exc = "Exception"

\* @log.catch on stop(): whatever leaves the body is logged, not re-raised
LogCatch(exc) == TRUE

\* if self._is_registered: the unregistration is attempted only then, and only
\* a call that returns clears the flag
StopUnregistersMutant == TRUE

StopUnregisters == is_registered

\* self.unregister(); self._is_registered = False, both inside the try: the
\* assignment is reached only when unregister() returned
StopClearsFlagMutant(out) == TRUE

StopClearsFlag(out) == out = "ok"

Stop ==
    /\ stop_retry' = StopFlag
    /\ stop_seen' = registration_thread
    /\ IF StopUnregisters
       THEN \E out \in {"ok", "raise"} :
               /\ is_registered' = (IF StopClearsFlag(out) THEN FALSE ELSE is_registered)
               /\ bus' = (IF out = "ok" THEN FALSE ELSE bus)
               /\ unreg_failed' = (out = "raise")
               /\ last' = [Call("stop", TRUE) EXCEPT
                             !.unreg = out,
                             !.escaped = /\ out = "raise"
                                         /\ ~StopCatches("Exception")
                                         /\ ~LogCatch("Exception"),
                             !.again = (last.call = "stop")]
       ELSE /\ UNCHANGED <<is_registered, bus>>
            /\ unreg_failed' = FALSE
            /\ last' = [Call("stop", TRUE) EXCEPT !.again = (last.call = "stop")]
    /\ UNCHANGED <<registration_thread, thr, idle, reg_ok, timed_out>>
    /\ UNCHANGED <<ui_error, menu, chan>>

\* ------------------------------------------- _do_register_with_retry (worker)
\* if self._stop_retry: log.debug(...); return
WorkerCancelled(w) ==
    /\ thr[w].pc = "top"
    /\ stop_retry
    /\ thr' = [thr EXCEPT ![w] = Gone("cancelled")]
    /\ last' = ReturnOf([thr[w] EXCEPT !.pc = "cancelled"])
    /\ UNCHANGED <<is_registered, stop_retry, registration_thread, idle, bus, reg_ok, timed_out, stop_seen>>
    /\ UNCHANGED <<unreg_failed, ui_error, menu, chan>>

\* result = [None]; event = threading.Event(); GLib.idle_add(do_register)
WorkerSchedule(w) ==
    /\ thr[w].pc = "top"
    /\ ~stop_retry
    /\ thr' = [thr EXCEPT ![w].pc = "wait", ![w].result = "None",
                          ![w].scheduled = @ + 1]
    /\ idle' = Append(idle, <<w, thr[w].attempt>>)
    /\ last' = Other
    /\ UNCHANGED <<is_registered, stop_retry, registration_thread, bus, reg_ok, timed_out, stop_seen>>
    /\ UNCHANGED <<unreg_failed, ui_error, menu, chan>>

\* event.wait(timeout=10) returns once the event is set or the time is up
WaitOver(w) ==
    \/ thr[w].result # "None"
    \/ timed_out < MaxTimeouts

\* if result[0] is True
IsSuccessMutant(r) == r # "Exception"

IsSuccess(r) == r = "True"

\* elif isinstance(result[0], Exception): raise result[0]
IsException(r) == r = "Exception"

\* if attempt < self.MAX_RETRIES: time.sleep(self.RETRY_DELAY_SECONDS)
ShouldSleepMutant(attempt) == attempt < MAX_RETRIES - 1

ShouldSleep(attempt) == attempt < MAX_RETRIES

\* for attempt in range(1, self.MAX_RETRIES + 1): next iteration, or fall out
\* of the loop to log.error(...)
LoopEndMutant(attempt) == attempt >= MAX_RETRIES - 1

LoopEnd(attempt) == attempt >= MAX_RETRIES

NextIteration(t) ==
    IF LoopEnd(t.attempt)
    THEN [t EXCEPT !.pc = "gaveup"]
    ELSE [t EXCEPT !.pc = "top", !.attempt = @ + 1]

\* except Exception as e: log.warning(f"Failed to register tray icon ..."):
\* the try block spans the whole attempt, raise result[0] included
WorkerCatches(exc) == exc = "Exception"

\* What a step that ends an iteration leaves of the thread, and what it
\* reports in last. "crashed": an exception left _do_register_with_retry.
AfterIteration(t) == IF t.pc \in {"gaveup", "crashed"} THEN Gone(t.pc) ELSE t

StepOf(t) == IF t.pc \in {"gaveup", "crashed"} THEN ReturnOf(t) ELSE Other

\* self._is_registered = True; log.info(...); return
WorkerSuccess(w) ==
    /\ thr[w].pc = "wait"
    /\ WaitOver(w)
    /\ IsSuccess(thr[w].result)
    /\ is_registered' = TRUE
    /\ thr' = [thr EXCEPT ![w] = Gone("registered")]
    /\ last' = ReturnOf([thr[w] EXCEPT !.pc = "registered"])
    /\ UNCHANGED <<stop_retry, registration_thread, idle, bus, reg_ok, timed_out, stop_seen>>
    /\ UNCHANGED <<unreg_failed, ui_error, menu, chan>>

\* raise result[0], caught by except Exception: log.warning, then the sleep
WorkerRaised(w) ==
    /\ thr[w].pc = "wait"
    /\ WaitOver(w)
    /\ ~IsSuccess(thr[w].result)
    /\ IsException(thr[w].result)
    /\ LET t == IF WorkerCatches("Exception")
                THEN NextIteration(
                       [thr[w] EXCEPT !.warnings = @ + 1,
                                      !.slept = IF ShouldSleep(thr[w].attempt)
                                                THEN @ + RETRY_DELAY_SECONDS ELSE @])
                ELSE [thr[w] EXCEPT !.pc = "crashed"]
       IN /\ thr' = [thr EXCEPT ![w] = AfterIteration(t)]
          /\ last' = StepOf(t)
    /\ UNCHANGED <<is_registered, stop_retry, registration_thread, idle, bus, reg_ok, timed_out, stop_seen>>
    /\ UNCHANGED <<unreg_failed, ui_error, menu, chan>>

\* event.wait(timeout=10): the wait ends by itself when the time is up
WaitHasTimeoutMutant == FALSE

WaitHasTimeout == TRUE

\* result[0] is still None: neither branch is taken, nothing is raised, and the
\* loop goes on to its next iteration
TimedOut(w) ==
    /\ thr[w].pc = "wait"
    /\ WaitHasTimeout
    /\ ~IsSuccess(thr[w].result)
    /\ ~IsException(thr[w].result)
    /\ LET t == NextIteration([thr[w] EXCEPT !.timeouts = @ + 1])
       IN /\ thr' = [thr EXCEPT ![w] = AfterIteration(t)]
          /\ last' = StepOf(t)
    /\ UNCHANGED <<is_registered, stop_retry, registration_thread, idle, bus, reg_ok, stop_seen>>
    /\ UNCHANGED <<unreg_failed, ui_error, menu, chan>>

\* The timeouts are counted, and capped by MaxTimeouts (WaitOver) ...
WorkerTimedOut(w) == WaitOver(w) /\ TimedOut(w) /\ timed_out' = timed_out + 1

\* ... or neither counted nor capped: every wait may time out.
WaitTimesOut(w) == TimedOut(w) /\ UNCHANGED timed_out

\* ------------------------------------------------ do_register (GLib main loop)
\* try: self.register(); result[0] = True / except Exception as e: result[0] = e
DoRegisterResult(out) == IF out = "ok" THEN "True" ELSE "Exception"

\* The closure writes the result list of its own attempt; the worker reads that
\* list only while it is still in that attempt.
SlotRead(w, a) == thr[w].pc = "wait" /\ thr[w].attempt = a

\* except Exception as e: what register() raises is caught in the closure
DoRegisterCatchesMutant(exc) == FALSE

DoRegisterCatches(exc) == exc = "Exception"

\* return False  # Don't repeat: the value GLib reads to keep or drop the source
DoRegisterReturn == FALSE

\* The main loop runs the closure at the head of the queue: register(), then
\* result[0], then event.set() (which ends the wait of a thread that still
\* waits for this attempt), then the return value. An exception that is not
\* caught leaves the closure before any of the three.
UIRunIdle ==
    /\ idle # <<>>
    /\ LET w == Head(idle)[1]
           a == Head(idle)[2]
       IN \E out \in {"ok", "raise"} :
            LET caught == out = "ok" \/ DoRegisterCatches("Exception")
                stored == IF caught THEN DoRegisterResult(out) ELSE "None"
                repeat == caught /\ DoRegisterReturn
            IN /\ bus' = (IF out = "ok" THEN TRUE ELSE bus)
               /\ reg_ok' = (reg_ok \/ out = "ok")
               /\ thr' = IF SlotRead(w, a) /\ caught
                         THEN [thr EXCEPT ![w].result = stored]
                         ELSE thr
               /\ idle' = IF repeat THEN Append(Tail(idle), Head(idle))
                          ELSE Tail(idle)
               /\ ui_error' = (ui_error \/ ~caught)
               /\ last' = Other
    /\ UNCHANGED <<is_registered, stop_retry, registration_thread, timed_out, stop_seen, unreg_failed>>
    /\ UNCHANGED <<menu, chan>>

\* ------------------------------------------- pending images: the two threads
\* with lock: entering the block takes the lock, and waits while it is held
AcquireMutant(t) == TRUE

Acquire(t) == lock = "free"

\* Thread t is inside its with block.
InSection(t) ==
    IF t = "writer" THEN writer.pc = "in" ELSE reader.pc \in {"snap", "pop"}

OtherThread(t) == IF t = "writer" THEN "reader" ELSE "writer"

\* An access to the map by t while the other thread is inside its with block
\* is a data race: the access may raise (an entry of errors) or not.
RaceOutcomes(t) == IF InSection(OtherThread(t)) THEN {0, 1} ELSE {0}

\* ui_changes[key] = image: the entry of the key is replaced, never appended to
InsertMutant(m, k, img) == IF m[k] # 0 THEN m ELSE [m EXCEPT ![k] = img]

Insert(m, k, img) == [m EXCEPT ![k] = img]

\* ui_changes.pop(key, None)
Pop(m, k) == [m EXCEPT ![k] = 0]

\* list(ui_changes.items())
ItemsOf(m) == m

KeysOf(items) == {k \in Keys : items[k] # 0}

\* for i in range(iterations)
WriterLoop(i) ==
    IF i >= MaxWrites THEN [pc |-> "done", i |-> i] ELSE [pc |-> "out", i |-> i + 1]

\* writer_thread / add_images (record_pending): with lock:
WriterAcquire ==
    /\ writer.pc = "out"
    /\ Acquire("writer")
    /\ lock' = "writer"
    /\ writer' = [writer EXCEPT !.pc = "in"]
    /\ UNCHANGED <<ui_changes, reader, applied, overwritten, latest, failures, reported, errors>>
    /\ UNCHANGED <<menu, tray>>

\* ui_changes[key] = image, and the end of the with block
WriterInsert ==
    /\ writer.pc = "in"
    /\ \E k \in Keys :
          /\ ui_changes' = Insert(ui_changes, k, writer.i)
          /\ overwritten' = IF ui_changes[k] # 0
                            THEN overwritten \cup {ui_changes[k]} ELSE overwritten
          /\ latest' = [latest EXCEPT ![k] = writer.i]
    /\ \E e \in RaceOutcomes("writer") : errors' = errors + e
    /\ lock' = "free"
    /\ writer' = WriterLoop(writer.i)
    /\ UNCHANGED <<reader, applied, failures, reported>>
    /\ UNCHANGED <<menu, tray>>

\* reader_thread / read_images (drain_and_apply): with lock:
ReaderAcquire ==
    /\ reader.pc = "out"
    /\ Acquire("reader")
    /\ lock' = "reader"
    /\ reader' = [reader EXCEPT !.pc = "snap"]
    /\ UNCHANGED <<ui_changes, writer, applied, overwritten, latest, failures, reported, errors>>
    /\ UNCHANGED <<menu, tray>>

\* items = list(ui_changes.items())
ReaderSnapshot ==
    /\ reader.pc = "snap"
    /\ reader' = [reader EXCEPT !.pc = "pop",
                                !.items = ItemsOf(ui_changes),
                                !.topop = KeysOf(ItemsOf(ui_changes)),
                                !.toapply = {}]
    /\ \E e \in RaceOutcomes("reader") : errors' = errors + e
    /\ UNCHANGED <<ui_changes, lock, writer, applied, overwritten, latest, failures, reported>>
    /\ UNCHANGED <<menu, tray>>

\* for key, _ in items: ui_changes.pop(key, None)
ReaderPop(k) ==
    /\ reader.pc = "pop"
    /\ k \in reader.topop
    /\ ui_changes' = Pop(ui_changes, k)
    /\ reader' = [reader EXCEPT !.topop = @ \ {k}]
    /\ \E e \in RaceOutcomes("reader") : errors' = errors + e
    /\ UNCHANGED <<lock, writer, applied, overwritten, latest, failures, reported>>
    /\ UNCHANGED <<menu, tray>>

\* drain_and_apply: whether the lock is given back before apply_fn is called
HoldsLockWhileApplyingMutant == TRUE

HoldsLockWhileApplying == FALSE

\* the end of the with block: the drained pairs are applied from here on
ReaderRelease ==
    /\ reader.pc = "pop"
    /\ reader.topop = {}
    /\ lock' = IF HoldsLockWhileApplying THEN lock ELSE "free"
    /\ reader' = [reader EXCEPT !.pc = "apply", !.toapply = KeysOf(reader.items)]
    /\ UNCHANGED <<ui_changes, writer, applied, overwritten, latest, failures, reported, errors>>
    /\ UNCHANGED <<menu, tray>>

\* drain_and_apply: a failure of apply_fn for one key is caught and logged,
\* and the loop goes on with the next key
ApplyCatchesMutant(exc) == FALSE

ApplyCatches(exc) == exc = "Exception"

\* apply_fn(key, image) for one drained pair, in any order
ReaderApply(k) ==
    /\ reader.pc = "apply"
    /\ k \in reader.toapply
    /\ applied' = [applied EXCEPT ![reader.items[k]] = @ + 1]
    /\ \E out \in {"ok", "raise"} :
          /\ failures' = IF out = "ok" THEN failures ELSE failures + 1
          /\ IF out = "ok" \/ ApplyCatches("Exception")
             THEN /\ reported' = IF out = "ok" THEN reported ELSE reported + 1
                  /\ reader' = [reader EXCEPT !.toapply = @ \ {k}]
                  /\ lock' = lock
             ELSE /\ reported' = reported
                  /\ reader' = [reader EXCEPT !.pc = "done", !.escaped = TRUE]
                  /\ lock' = IF HoldsLockWhileApplying THEN "free" ELSE lock
    /\ UNCHANGED <<ui_changes, writer, overwritten, latest, errors>>
    /\ UNCHANGED <<menu, tray>>

\* for _ in range(iterations): the pass is over, the next one begins
ReaderLoop ==
    /\ reader.pc = "apply"
    /\ reader.toapply = {}
    /\ lock' = IF HoldsLockWhileApplying THEN "free" ELSE lock
    /\ reader' = IF reader.j >= MaxDrains
                  THEN [reader EXCEPT !.pc = "done"]
                  ELSE [reader EXCEPT !.pc = "out", !.j = @ + 1]
    /\ UNCHANGED <<ui_changes, writer, applied, overwritten, latest, failures, reported, errors>>
    /\ UNCHANGED <<menu, tray>>

ChannelNext ==
    \/ WriterAcquire
    \/ WriterInsert
    \/ ReaderAcquire
    \/ ReaderSnapshot
    \/ \E k \in Keys : ReaderPop(k)
    \/ ReaderRelease
    \/ \E k \in Keys : ReaderApply(k)
    \/ ReaderLoop

\* --------------------------------------------------------------------- Next
Next ==
    \/ Start
    \/ Initialize
    \/ Stop
    \/ UIRunIdle
    \/ \E w \in Workers : WorkerCancelled(w)
    \/ \E w \in Workers : WorkerSchedule(w)
    \/ \E w \in Workers : WorkerSuccess(w)
    \/ \E w \in Workers : WorkerRaised(w)
    \/ \E w \in Workers : WorkerTimedOut(w)

Spec == Init /\ [][Next]_vars

\* The tray icon with no cap on the waits that time out: every wait may. The
\* callers spawn at most MaxTerminationWorkers threads.
TerminationStart == registration_thread < MaxTerminationWorkers /\ Start

TerminationInitialize == registration_thread < MaxTerminationWorkers /\ Initialize

TerminationNext ==
    \/ TerminationStart
    \/ TerminationInitialize
    \/ Stop
    \/ UIRunIdle
    \/ \E w \in Workers : WorkerCancelled(w)
    \/ \E w \in Workers : WorkerSchedule(w)
    \/ \E w \in Workers : WorkerSuccess(w)
    \/ \E w \in Workers : WorkerRaised(w)
    \/ \E w \in Workers : WaitTimesOut(w)

\* A registration thread that can take a step eventually takes one: the
\* thread is scheduled, event.wait and time.sleep return. Nothing is assumed
\* of the callers or of the main loop, which may never run an idle closure.
WorkerRuns(w) ==
    \/ WorkerCancelled(w)
    \/ WorkerSchedule(w)
    \/ WorkerSuccess(w)
    \/ WorkerRaised(w)
    \/ WaitTimesOut(w)

TerminationSpec ==
    /\ Init
    /\ [][TerminationNext]_vars
    /\ \A w \in Workers : WF_vars(WorkerRuns(w))

\* The two threads of the pending-image map alone.
ChannelSpec == Init /\ [][ChannelNext]_vars

\* Both threads keep running: a thread that can take a step eventually does.
ChannelFairSpec ==
    /\ ChannelSpec
    /\ WF_vars(WriterAcquire \/ WriterInsert)
    /\ WF_vars(ReaderAcquire \/ ReaderSnapshot \/ (\E k \in Keys : ReaderPop(k))
                 \/ ReaderRelease \/ (\E k \in Keys : ReaderApply(k)) \/ ReaderLoop)

TypeOK ==
    /\ is_registered \in BOOLEAN
    /\ stop_retry \in BOOLEAN
    /\ bus \in BOOLEAN
    /\ reg_ok \in BOOLEAN
    /\ registration_thread \in 0..MaxWorkers
    /\ stop_seen \in 0..registration_thread
    /\ unreg_failed \in BOOLEAN
    /\ timed_out \in 0..MaxTimeouts
    /\ \A w \in Workers :
          /\ thr[w].pc \in {"none", "top", "wait", "registered", "cancelled", "gaveup", "crashed"}
          /\ thr[w].result \in {"None", "True", "Exception"}
          /\ thr[w].pc = "none" <=> w > registration_thread
    /\ \A i \in 1..Len(idle) : idle[i] \in Workers \X (1..MAX_RETRIES)

\* ------------------------------------------------------------------- claims
AliveWorkers == {w \in Workers : Alive(w)}

\* An attempt is in flight from GLib.idle_add until its do_register has run:
\* the attempts in flight are the closures in the idle queue.
InFlight == Len(idle)

\* C1: at most one registration thread is alive at any time; a start() or
\* initialize() issued while an earlier thread has not returned spawns nothing.
C1_AtMostOneWorkerAlive == Cardinality(AliveWorkers) <= 1

\* C2: registration attempts are strictly sequential: at most one attempt is
\* in flight in every reachable state. Stated for the behaviours with a single
\* registration thread, where every attempt in flight is an attempt of that
\* thread.
C2_AtMostOneAttemptInFlight == registration_thread <= 1 => InFlight <= 1

\* C3: once stop() has been called while a thread was running, that thread
\* schedules no further register call (the attempt it was waiting for may
\* complete), and a thread that finds the flag set returns without touching
\* is_registered.
C3_NoAttemptAfterStop ==
    [][/\ \A w \in Workers :
            StoppedWhileRunning(w) => thr'[w].scheduled <= thr[w].scheduled
       /\ (last'.call = "returned" /\ last'.ret.pc = "cancelled")
            => is_registered' = is_registered]_vars

\* C4: is_registered is false initially; it is true only if some register()
\* call has returned; and it is set to true only by a thread that reads True
\* from the result list of the attempt it is waiting for, never after reading
\* an exception or None (the wait timed out).
C4_RegisteredOnlyAfterConfirmedSuccess ==
    /\ ~is_registered
    /\ [](is_registered => reg_ok)
    /\ [](\A w \in Workers : thr[w].result = "True" => reg_ok)
    /\ [][(~is_registered /\ is_registered')
            => /\ last'.call = "returned"
               /\ last'.ret.pc = "registered"
               /\ last'.ret.result = "True"
               /\ reg_ok]_vars

C4_Witness ==
    /\ is_registered
    /\ last.call = "returned"
    /\ last.ret.pc = "registered"
    /\ last.ret.timeouts = 1

\* C5: in the claim's scenario (one start(), no stop(), every do_register run
\* before its wait times out), a thread whose register call raised k times
\* and then returned has k < MAX_RETRIES and leaves is_registered true after
\* exactly k + 1 attempts and k sleeps of RETRY_DELAY_SECONDS; none of its
\* closures is left in the idle queue, and a thread that has returned never
\* runs again.
C5_SuccessAfterKFailures ==
    /\ []((/\ last.call = "returned"
           /\ last.ret.pc = "registered"
           /\ registration_thread = 1
           /\ stop_seen = 0
           /\ timed_out = 0)
            => /\ last.ret.warnings < MAX_RETRIES
               /\ last.ret.scheduled = last.ret.warnings + 1
               /\ last.ret.attempt = last.ret.warnings + 1
               /\ last.ret.slept = RETRY_DELAY_SECONDS * last.ret.warnings
               /\ is_registered
               /\ idle = <<>>)
    /\ [][\A w \in Workers : Returned(w) => thr'[w] = thr[w]]_vars

C5_Witness ==
    /\ last.call = "returned"
    /\ last.ret.pc = "registered"
    /\ registration_thread = 1
    /\ stop_seen = 0
    /\ timed_out = 0
    /\ last.ret.warnings = MAX_RETRIES - 1
    /\ last.ret.slept = RETRY_DELAY_SECONDS * (MAX_RETRIES - 1)
    /\ is_registered

\* C6: while no register() call has returned, is_registered stays false, and
\* a thread that returns without stop() having been called has given up; a
\* thread gives up only after exactly MAX_RETRIES attempts, all failed; no
\* thread makes more than MAX_RETRIES attempts; a thread returns cancelled only
\* when the stop flag is set; and no exception leaves a thread.
C6_GiveUpAfterMaxRetries ==
    /\ \A w \in Workers :
          /\ thr[w].scheduled <= MAX_RETRIES
          /\ thr[w].attempt \in 1..MAX_RETRIES
          /\ thr[w].pc # "crashed"
    /\ (last.call = "returned" /\ last.ret.pc = "gaveup")
         => /\ last.ret.scheduled = MAX_RETRIES
            /\ last.ret.warnings + last.ret.timeouts = MAX_RETRIES
    /\ (last.call = "returned" /\ ~reg_ok /\ stop_seen = 0)
         => last.ret.pc = "gaveup"
    /\ (last.call = "returned" /\ last.ret.pc = "cancelled") => stop_retry
    /\ last.call = "returned" => last.ret.pc # "crashed"
    /\ ~reg_ok => ~is_registered

C6_Witness ==
    /\ last.call = "returned"
    /\ last.ret.pc = "gaveup"
    /\ last.ret.warnings = MAX_RETRIES
    /\ ~reg_ok
    /\ ~is_registered

\* C7: an attempt whose wait timed out is handled like one whose register call
\* raised: every failed attempt is reported by a warning, and followed by a
\* sleep of RETRY_DELAY_SECONDS when attempts remain. At the head of iteration
\* n the thread has then logged n - 1 warnings and slept n - 1 times.
C7_TimeoutHandledLikeFailure ==
    \A w \in Workers :
        thr[w].pc = "top"
          => /\ thr[w].warnings = thr[w].attempt - 1
             /\ thr[w].slept = RETRY_DELAY_SECONDS * (thr[w].attempt - 1)

\* C8: every stop() sets the stop flag, calls unregister() exactly when
\* is_registered is true, and lets no exception out, also when unregister()
\* raises.
C8_StopAlwaysCompletes ==
    [][last'.call = "stop"
         => /\ stop_retry'
            /\ ~last'.escaped
            /\ is_registered <=> last'.unreg # "none"
            /\ last'.unreg = "ok" => ~is_registered'
            /\ last'.unreg = "raise" => is_registered']_vars

C8_Witness ==
    /\ last.call = "stop"
    /\ last.unreg = "raise"
    /\ ~last.escaped
    /\ stop_retry

\* What stop() can change.
StopState == <<is_registered, stop_retry, bus, thr, idle, registration_thread>>

\* C9 as claimed: a stop() that follows a stop() raises nothing, changes
\* nothing and does not call unregister().
C9_SecondStopIsNoOp ==
    [][(last'.call = "stop" /\ last'.again)
         => /\ ~last'.escaped
            /\ last'.unreg = "none"
            /\ UNCHANGED StopState]_vars

\* C9 as amended: a stop() that follows a stop() raises nothing; if the first
\* stop() did not call unregister() or its unregister() returned, the second
\* changes nothing and does not call unregister(); if the unregister() of the
\* first raised, is_registered is still true and the second calls unregister()
\* again.
C9_SecondStopAmended ==
    [][(last'.call = "stop" /\ last'.again)
         => /\ ~last'.escaped
            /\ IF last.unreg = "raise"
               THEN is_registered /\ last'.unreg # "none"
               ELSE last'.unreg = "none" /\ UNCHANGED StopState]_vars

C9_Witness ==
    /\ last.call = "stop"
    /\ last.again
    /\ last.unreg = "none"
    /\ reg_ok
    /\ ~is_registered
    /\ ~bus

Spawned == registration_thread' # registration_thread

\* C10 as claimed: start() and initialize() spawn a thread only if
\* is_registered is false and the tray-icon setting is enabled (so that a call
\* with is_registered true or with the setting disabled spawns nothing).
C10_SpawnOnlyIfEnabled ==
    [][Spawned => (~is_registered /\ last'.pref)]_vars

\* C10 as amended: a thread is spawned only by start() or initialize() and
\* only if is_registered is false; initialize() spawns only if the tray-icon
\* setting is enabled, while start() does not consult the setting and spawns
\* whenever is_registered is false. A spawn starts exactly one fresh thread
\* and clears the stop flag; nothing else changes thr's domain of running
\* threads.
C10_SpawnAmended ==
    [][/\ Spawned
            => /\ ~is_registered
               /\ last'.call \in {"start", "initialize"}
               /\ last'.call = "initialize" => last'.pref
               /\ registration_thread' = registration_thread + 1
               /\ thr' = [thr EXCEPT ![registration_thread'] = Fresh]
               /\ ~stop_retry'
       /\ last'.call \in {"start", "initialize"} => Spawned
       /\ \A w \in Workers : (~Alive(w) /\ Alive(w)') => Spawned]_vars

C10_Witness ==
    /\ last.call = "start"
    /\ ~last.pref
    /\ registration_thread = 1
    /\ thr[1] = Fresh

\* C11: the stop flag, once set, is cleared only by a start() or initialize()
\* that spawns a new thread: not by a registration thread, not by do_register,
\* not by stop(), and not by a start() or initialize() that returns at once
\* because the icon is registered or the setting is disabled.
C11_StopFlagClearedOnlyBySpawn ==
    [][(stop_retry /\ ~stop_retry')
         => /\ Spawned
            /\ last'.call \in {"start", "initialize"}
            /\ thr'[registration_thread'] = Fresh]_vars

\* stop() was called while an attempt was in flight; the attempt then
\* succeeded and its thread returned, and the flag is still set
C11_Witness ==
    /\ stop_retry
    /\ is_registered
    /\ last.call = "returned"
    /\ last.ret.pc = "registered"

\* C15: the menu has exactly 7 entries, with ids 1..7 in the order they were
\* added; entries 2 and 6 are the separators and no other entry is one; the
\* first entry has id 1 and label "Show Window"; get_items() returns the
\* entries in that order; and no step after construction changes the menu.
C15_MenuModel ==
    /\ [](/\ Len(GetItems(menu)) = 7
          /\ \A n \in 1..7 :
                /\ GetItems(menu)[n].id = n
                /\ GetItems(menu)[n].type = "separator" <=> n \in {2, 6}
          /\ GetItems(menu)[1].label = "Show Window"
          /\ GetItems(menu)[1].callback = "on_show")
    /\ [][menu' = menu]_vars

\* the menu as built, after the icon was registered and unregistered again
C15_Witness ==
    /\ Len(menu) = 7
    /\ menu[7].label = "Quit"
    /\ last.call = "stop"
    /\ last.unreg = "ok"

\* C17: every registration thread returns (the callers spawn finitely many,
\* and from some point on none is alive), as registered (with is_registered
\* set by that step), as cancelled (the stop flag found set at the head of an
\* iteration) or as having given up (after MAX_RETRIES attempts), whatever the
\* register calls do and also when the main loop never runs a closure; no
\* thread makes more than MAX_RETRIES attempts; and a thread in event.wait can
\* always go on, whether or not its closure has run.
C17_WorkerTerminates ==
    /\ <>[](\A w \in Workers : ~Alive(w))
    /\ [](\A w \in Workers :
            /\ thr[w].scheduled <= MAX_RETRIES
            /\ thr[w].pc # "crashed"
            /\ thr[w].pc = "wait"
                 => ENABLED (WorkerSuccess(w) \/ WorkerRaised(w) \/ WaitTimesOut(w)))
    /\ [][\A w \in Workers :
            (Alive(w) /\ Returned(w)')
              => /\ last'.call = "returned"
                 /\ last'.ret.pc = thr'[w].pc
                 /\ thr'[w].pc = "registered" => is_registered'
                 /\ thr'[w].pc = "cancelled" => (stop_retry /\ thr[w].pc = "top")
                 /\ thr'[w].pc = "gaveup" => last'.ret.scheduled = MAX_RETRIES]_vars

\* a thread gave up after all of its waits timed out, no closure having run
C17_Witness ==
    /\ last.call = "returned"
    /\ last.ret.pc = "gaveup"
    /\ last.ret.timeouts = MAX_RETRIES
    /\ Len(idle) = MAX_RETRIES

\* A closure was run by the main loop: the idle queue lost an entry.
ClosureRun == Len(idle') < Len(idle)

\* C18: no error leaves do_register: whether register() returns or raises,
\* the closure stores the outcome (True or the exception) in result[0] and
\* sets the event, so that a thread still waiting for that attempt reads the
\* outcome and no longer None; it returns False, so that it is taken from the
\* idle queue and never put back; and the queue never holds two closures of
\* one attempt.
C18_CallbackNeverRaises ==
    /\ [](~ui_error)
    /\ [](\A m, n \in 1..Len(idle) : idle[m] = idle[n] => m = n)
    /\ [][/\ idle' # idle => (Len(idle') = Len(idle) + 1 \/ idle' = Tail(idle))
          /\ ClosureRun
               => /\ idle' = Tail(idle)
                  /\ SlotRead(Head(idle)[1], Head(idle)[2])
                       => LET r == thr'[Head(idle)[1]].result
                          IN /\ r \in {"True", "Exception"}
                             /\ r = "True" => (bus' /\ reg_ok')
                             /\ r = "Exception" => (bus' = bus /\ reg_ok' = reg_ok)]_vars

\* register() raised in the closure of the attempt the thread is waiting for,
\* with an earlier closure of the thread having run late
C18_Witness ==
    /\ ~ui_error
    /\ last.call = "other"
    /\ \E w \in Workers :
          /\ thr[w].pc = "wait"
          /\ thr[w].result = "Exception"
          /\ thr[w].timeouts = 1
          /\ \A n \in 1..Len(idle) : idle[n][1] # w

\* stop() is about to write is_registered: it finds the flag set and writes
\* False once unregister() has returned.
StopWrites == StopUnregisters

\* Thread w is about to write is_registered: it has read, or will read, True
\* from result[0] and writes True next.
WorkerWrites(w) == thr[w].pc = "wait" /\ IsSuccess(thr[w].result)

\* C19: is_registered has no concurrent writers: in no state are a write by
\* stop() and a write by a registration thread both due, with nothing that
\* orders them.
C19_NoConcurrentWriters ==
    ~(StopWrites /\ \E w \in Workers : WorkerWrites(w))

\* stop() has returned, its unregister() call (if any) did not raise, and no
\* thread was spawned since: the flag it set (l.114) is cleared only by a
\* spawning start()/initialize() (l.63)
StoppedLast == stop_retry /\ stop_seen = registration_thread /\ ~unreg_failed

\* every retry worker has returned and no scheduled closure is left to run
Quiescent == (\A w \in Workers : ~Alive(w)) /\ idle = <<>>

\* C20: once stop() has returned without its unregistration failing, no
\* start()/initialize() has spawned a thread since, every retry worker has
\* returned and every scheduled closure has run, is_registered is false and
\* the tray is not registered on the bus.
C20_StopLeavesUnregistered ==
    (StoppedLast /\ Quiescent) => (~is_registered /\ ~bus)

\* the main loop runs a closure, and with it register() (l.85), while the bus
\* already holds the registration made by an earlier closure
RegisterWhileRegistered == ClosureRun /\ bus

\* is_registered (l.96, l.119) says what the bus holds
FlagAgreesWithBus == is_registered <=> bus

\* C21: register() never runs on the UI thread while the bus already holds a
\* registration made by an earlier callback, and whenever no worker is running
\* and no callback is pending, is_registered is true exactly when the bus
\* holds the registration; callbacks of timed-out attempts included.
C21_FlagAgreesWithBus ==
    /\ [](Quiescent => FlagAgreesWithBus)
    /\ [][~RegisterWhileRegistered]_vars

\* C22: when stop() is called with is_registered true and unregister() raises,
\* is_registered is left true and the stop flag is set; until the next stop()
\* both stay so, a start() finds its guard closed and spawns nothing, and the
\* next stop() calls unregister() again.
C22_FailedUnregistration ==
    /\ [](unreg_failed => (is_registered /\ stop_retry /\ ~SpawnAllowed))
    /\ [][(last'.call = "stop" /\ last'.unreg = "raise")
            => (is_registered /\ is_registered' /\ stop_retry' /\ unreg_failed')]_vars
    /\ [][unreg_failed => ~Spawned]_vars
    /\ [][(unreg_failed /\ last'.call = "stop") => last'.unreg # "none"]_vars

\* a stop() whose unregister() raised was followed by a stop() that called
\* unregister() again, this time with success
C22_Witness ==
    /\ last.call = "stop"
    /\ last.again
    /\ last.unreg = "ok"
    /\ stop_retry
    /\ ~is_registered
    /\ ~unreg_failed

\* ------------------------------------------------- claims: pending images
\* Image img has been recorded: the writer has finished iteration img.
Recorded(img) == img < writer.i \/ (img = writer.i /\ writer.pc = "done")

\* Image img is the pending image of some key.
InMap(img) == \E k \in Keys : ui_changes[k] = img

\* Image img is in the snapshot of the running drain and not yet applied.
Held(img) ==
    \/ reader.pc = "pop" /\ \E k \in Keys : reader.items[k] = img
    \/ reader.pc = "apply" /\ \E k \in reader.toapply : reader.items[k] = img

\* C12: last write wins, nothing is lost and nothing is applied twice. A
\* drain snapshots for every key the image recorded last for it, and leaves
\* the map without the entries it snapshotted; no image is applied more than
\* once; an image that was replaced while pending is never applied; and an
\* image that was recorded and not replaced is in exactly one place: pending
\* in the map, or in the snapshot of the running drain, or applied once.
C12_LastWriteWins ==
    /\ [](\A img \in Images :
            /\ applied[img] <= 1
            /\ ~Recorded(img) => (applied[img] = 0 /\ ~InMap(img) /\ ~Held(img))
            /\ img \in overwritten
                 => (applied[img] = 0 /\ ~InMap(img) /\ ~Held(img))
            /\ (Recorded(img) /\ img \notin overwritten)
                 => /\ applied[img] = 0 => (InMap(img) \/ Held(img))
                    /\ applied[img] = 1 => (~InMap(img) /\ ~Held(img))
                    /\ (InMap(img) /\ Held(img))
                         => (reader.pc = "pop"
                             /\ \E k \in reader.topop : ui_changes[k] = img))
    /\ [][/\ (reader.pc = "snap" /\ reader'.pc = "pop")
              => \A k \in Keys : reader'.items[k] = ui_changes[k]
                                   /\ reader'.items[k] \in {0, latest[k]}
          /\ (reader.pc = "pop" /\ reader'.pc = "apply")
              => (ui_changes' = NoImages /\ reader'.toapply = KeysOf(reader.items))
         ]_vars

\* every image but the replaced ones was applied once, and one was replaced
C12_Witness ==
    /\ writer.pc = "done"
    /\ reader.pc = "done"
    /\ overwritten # {}
    /\ \A img \in Images \ overwritten : applied[img] = 1

\* C13: the with blocks of the two threads never overlap, the lock is held
\* exactly by a thread inside its block, no error is recorded, and both
\* threads finish their iterations.
C13_LockedSectionsExclusive ==
    /\ [](~(InSection("writer") /\ InSection("reader")))
    /\ [](lock = "writer" <=> InSection("writer"))
    /\ [](lock = "reader" <=> InSection("reader"))
    /\ [](errors = 0)
    /\ <>[](writer.pc = "done" /\ reader.pc = "done")

\* both threads are done and no error was recorded; the first and the last
\* image were both applied
C13_Witness ==
    /\ writer.pc = "done"
    /\ reader.pc = "done"
    /\ errors = 0
    /\ applied[1] = 1
    /\ applied[MaxWrites] = 1

\* C14: a failure of apply_fn for one key does not abort the batch: every key
\* of the snapshot gets apply_fn called exactly once before the pass ends,
\* every failure is reported, and no error leaves drain_and_apply.
C14_ApplyFailureIsolated ==
    /\ [](~reader.escaped)
    /\ [](reported = failures)
    /\ [](reader.pc = "apply"
            => \A k \in KeysOf(reader.items) :
                  applied[reader.items[k]] = (IF k \in reader.toapply THEN 0 ELSE 1))
    /\ [][(reader.pc = "apply" /\ reader'.pc # "apply")
             => reader.toapply = {}]_vars

\* the first pass drained two keys, apply_fn failed for one of them, and both
\* have been applied
C14_Witness ==
    /\ reader.pc = "apply"
    /\ reader.j = 1
    /\ reader.toapply = {}
    /\ Cardinality(KeysOf(reader.items)) = 2
    /\ failures = 1
    /\ reported = 1

\* C16: the lock is held by the drain only while it copies and clears, never
\* while apply_fn runs; a writer that wants the lock while the drain applies
\* gets it; and while the drain applies, the only changes of the map are the
\* writer's inserts, which stay for a later drain.
C16_ApplyOutsideLock ==
    /\ [](lock = "reader" <=> reader.pc \in {"snap", "pop"})
    /\ []((reader.pc = "apply" /\ writer.pc = "out") => Acquire("writer"))
    /\ [][reader.pc = "apply"
             => \A k \in Keys :
                   ui_changes'[k] # ui_changes[k]
                     => (writer.pc = "in" /\ ui_changes'[k] = writer.i)]_vars

\* an image was recorded while the drain still has images to apply
C16_Witness ==
    /\ reader.pc = "apply"
    /\ reader.toapply # {}
    /\ \E k \in Keys : ui_changes[k] # 0

====
